---- MODULE Spec2Model ----
(***************************************************************************)
(* Model of dbt/adapters/oracle/connections.py: the credentials'           *)
(* connection-descriptor resolution (connection_method, get_dsn) and the   *)
(* connection manager (open, cancel, get_status, get_response,             *)
(* exception_handler, add_query, add_begin_query).                         *)
(*                                                                         *)
(* Strings are sequences of one-character strings.  An Optional[str] is a  *)
(* record [isNone, s]; an Optional[int] is a record [isNone, n].           *)
(* The cx_Oracle driver and the host tool (begin, release) are the         *)
(* environment: each of their calls either succeeds or raises, chosen      *)
(* nondeterministically.                                                   *)
(***************************************************************************)
EXTENDS Integers, Sequences, FiniteSets, TLC

\* creds:        the OracleAdapterCredentials of the connection (never changed)
\* conn:         the connection entity: state, handle, transaction_open
\* native:       the driver's handles, each "fresh", "used" or "closed"
\* connectCalls: how many times cx_Oracle.connect was called
\* call:         the most recent manager call, its arguments and its outcome
VARIABLES creds, conn, native, connectCalls, call

vars == <<creds, conn, native, connectCalls, call>>

(* ---------------------------------------------------------------------- *)
(* Bounds                                                                 *)
(* ---------------------------------------------------------------------- *)

\* cx_Oracle.connect is called at most this many times in a behaviour
MaxConnects == 2

(* ---------------------------------------------------------------------- *)
(* Strings and optional values                                            *)
(* ---------------------------------------------------------------------- *)

NoneStr == [isNone |-> TRUE, s |-> <<>>]

Str(s) == [isNone |-> FALSE, s |-> s]

NoneInt == [isNone |-> TRUE, n |-> 0]

Int_(n) == [isNone |-> FALSE, n |-> n]

\* Python truthiness of an Optional[str]: None and "" are falsy
Truthy(x) == (~x.isNone) /\ Len(x.s) > 0

DigitChar == <<"0", "1", "2", "3", "4", "5", "6", "7", "8", "9">>

RECURSIVE Digits(_)
Digits(n) == IF n < 10 THEN <<DigitChar[n + 1]>>
             ELSE Digits(n \div 10) \o <<DigitChar[(n % 10) + 1]>>

\* str() of an int as an f-string renders it
IntToStr(n) == IF n < 0 THEN <<"-">> \o Digits(0 - n) ELSE Digits(n)

\* an f-string field holding an Optional[int]: None renders as "None"
FormatPort(p) == IF p.isNone THEN <<"N", "o", "n", "e">> ELSE IntToStr(p.n)

Whitespace == {" ", "\n", "\t"}

RECURSIVE LStrip(_)
LStrip(s) == IF Len(s) > 0 /\ Head(s) \in Whitespace THEN LStrip(Tail(s)) ELSE s

RECURSIVE RStrip(_)
RStrip(s) == IF Len(s) > 0 /\ s[Len(s)] \in Whitespace
             THEN RStrip(SubSeq(s, 1, Len(s) - 1)) ELSE s

\* str.strip()
Strip(s) == RStrip(LStrip(s))

(* ---------------------------------------------------------------------- *)
(* OracleAdapterCredentials                                               *)
(* ---------------------------------------------------------------------- *)

\* default Oracle database port
DefaultPort == 1521

\* connection_method with the host tested before the connection string
connection_method_hostfirst(c) ==
    IF Truthy(c.host) THEN "HOST"
    ELSE IF Truthy(c.connection_string) THEN "CONNECTION_STRING"
    ELSE "TNS"

connection_method(c) ==
    IF Truthy(c.connection_string) THEN "CONNECTION_STRING"
    ELSE IF Truthy(c.host) THEN "HOST"
    ELSE "TNS"

get_dsn(c) ==
    LET method == connection_method(c) IN
    IF method = "TNS" THEN c.database
    ELSE IF method = "CONNECTION_STRING" THEN c.connection_string.s
    ELSE LET service == IF Truthy(c.service) THEN c.service.s ELSE c.database
         IN  c.host.s \o <<":">> \o FormatPort(c.port) \o <<"/">> \o service

(* ---------------------------------------------------------------------- *)
(* Exceptions                                                             *)
(* ---------------------------------------------------------------------- *)

NoCause == [cls |-> "none", msg |-> <<>>, origin |-> "none"]

NoExc == [cls |-> "none", msg |-> <<>>, origin |-> "none", cause |-> NoCause]

\* an error object raised by the driver, the host tool or the interpreter at `site`
Raised(cls, msg, site) == [cls |-> cls, msg |-> msg, origin |-> site, cause |-> NoCause]

\* `raise X(msg) from e`: a new object made by the manager, __cause__ = e
RaiseFrom(cls, msg, e) ==
    [cls |-> cls, msg |-> msg, origin |-> "manager",
     cause |-> [cls |-> e.cls, msg |-> e.msg, origin |-> e.origin]]

\* isinstance(e, cx_Oracle.DatabaseError)
IsOracleDatabaseError(e) == e.cls = "cx_Oracle.DatabaseError"

\* isinstance(e, cx_Oracle.Error): DatabaseError is a subclass of Error
IsOracleError(e) == e.cls \in {"cx_Oracle.DatabaseError", "cx_Oracle.InterfaceError"}

\* isinstance(e, dbt.exceptions.RuntimeException)
IsRuntimeException(e) ==
    e.cls \in {"RuntimeException", "DatabaseException", "FailedToConnectException"}

(* ---------------------------------------------------------------------- *)
(* Inputs                                                                 *)
(* ---------------------------------------------------------------------- *)

SqlTexts == {<<"S">>, <<"Q", "q">>}

DriverMsgs == {<<"m">>, <<" ", "e", "\n">>}

ReleaseMsg == <<"r">>

OptStrs == {NoneStr, Str(<<>>), Str(<<"x">>)}

Databases == {<<>>, <<"d">>, <<"O", "R">>}

Passwords == {<<"p">>, <<"w">>}

Ports == {NoneInt, Int_(DefaultPort), Int_(80)}

MkCreds(cs, h, port, svc, db, pw, pre, dbg) ==
    [user |-> <<"u">>, password |-> pw, port |-> port, host |-> h, service |-> svc,
     connection_string |-> cs, debug_log_commands |-> dbg, cursor_precode |-> pre,
     database |-> db]

\* every combination of the fields the resolver reads, and two passwords
ResolverCreds ==
    {MkCreds(cs, h, port, svc, db, pw, NoneStr, FALSE) :
        cs \in OptStrs, h \in OptStrs, port \in Ports, svc \in OptStrs,
        db \in Databases, pw \in Passwords}

\* a host configuration with every kind of cursor_precode, debug logging on
\* and off
ManagerCreds ==
    {MkCreds(NoneStr, Str(<<"h">>), Int_(DefaultPort), NoneStr, <<"d">>, <<"p">>, pre, dbg) :
        pre \in {NoneStr, Str(<<>>), Str(<<"P">>)}, dbg \in BOOLEAN}

Bindings == {<<>>, <<"b">>}

(* ---------------------------------------------------------------------- *)
(* State                                                                  *)
(* ---------------------------------------------------------------------- *)

\* the host tool's Connection entity; handle 0 is None, h > 0 is native handle h
InitConn == [state |-> "init", handle |-> 0, transaction_open |-> FALSE]

\* the record of the most recent call and what the caller observed
NoCall ==
    [op |-> "none", result |-> "none", exc |-> NoExc, value |-> <<>>,
     pre |-> InitConn, preNative |-> "none", sql |-> <<>>, bindings |-> <<>>,
     auto_begin |-> FALSE,
     bodyExc |-> NoExc, ops |-> <<>>, began |-> FALSE, rel |-> <<>>, logs |-> <<>>,
     method |-> "none", dsn |-> <<>>, connects |-> 0]

\* the native state of the handle a connection holds
NativeOf(c, nat) == IF c.handle = 0 THEN "none" ELSE nat[c.handle]

CallOn(op, c, nat) ==
    [NoCall EXCEPT !.op = op, !.pre = c, !.preNative = NativeOf(c, nat)]

Init ==
    /\ creds \in ManagerCreds
    /\ conn = InitConn
    /\ native = <<>>
    /\ connectCalls = 0
    /\ call = NoCall

InitResolve ==
    /\ creds \in ResolverCreds
    /\ conn = InitConn
    /\ native = <<>>
    /\ connectCalls = 0
    /\ call = NoCall

\* the resolver on its own: connection_method and get_dsn applied to creds
Resolve ==
    /\ call' = [NoCall EXCEPT !.op = "resolve", !.result = "return",
                              !.method = connection_method(creds),
                              !.dsn = get_dsn(creds)]
    /\ UNCHANGED <<creds, conn, native, connectCalls>>

NextResolve == call.op = "none" /\ Resolve

SpecResolve == InitResolve /\ [][NextResolve]_vars

(* ---------------------------------------------------------------------- *)
(* OracleAdapterConnectionManager.open                                    *)
(* ---------------------------------------------------------------------- *)

\* what cx_Oracle.connect can do: return a handle, or raise one of the
\* driver's two error categories
ConnectOutcomes == {"ok", "cx_Oracle.DatabaseError", "cx_Oracle.InterfaceError"}

\* the early return taken for a closed connection instead of an open one
OpenSkips_whenClosed(c) == c.state = "closed"

\* `if connection.state == "open"`: the early return
OpenSkips(c) == c.state = "open"

\* `except cx_Oracle.DatabaseError as e` around cx_Oracle.connect
OpenCatches(e) == IsOracleDatabaseError(e)

\* the success path storing the handle but not the state
OpenSucceeded_noState(c, h) == [c EXCEPT !.handle = h]

\* connection.handle = handle; connection.state = "open"
OpenSucceeded(c, h) == [c EXCEPT !.handle = h, !.state = "open"]

\* the failure path setting the state but keeping the old handle
OpenFailed_keepsHandle(c) == [c EXCEPT !.state = "fail"]

\* connection.handle = None; connection.state = "fail"
OpenFailed(c) == [c EXCEPT !.handle = 0, !.state = "fail"]

Open ==
    IF OpenSkips(conn)
    THEN /\ call' = [CallOn("open", conn, native) EXCEPT !.result = "return"]
         /\ UNCHANGED <<creds, conn, native, connectCalls>>
    ELSE /\ connectCalls < MaxConnects
         /\ \E out \in ConnectOutcomes, m \in DriverMsgs :
              LET c0 == [CallOn("open", conn, native) EXCEPT
                            !.method = connection_method(creds),
                            !.dsn = get_dsn(creds),
                            !.connects = 1]
                  e  == Raised(out, m, "connect")
              IN  /\ connectCalls' = connectCalls + 1
                  /\ IF out = "ok"
                     THEN /\ native' = Append(native, "fresh")
                          /\ conn' = OpenSucceeded(conn, Len(native) + 1)
                          /\ call' = [c0 EXCEPT !.result = "return"]
                     ELSE IF OpenCatches(e)
                     THEN /\ conn' = OpenFailed(conn)
                          /\ call' = [c0 EXCEPT
                                 !.result = "raise",
                                 !.bodyExc = e,
                                 !.exc = Raised("FailedToConnectException", e.msg, "manager")]
                          /\ UNCHANGED native
                     ELSE /\ call' = [c0 EXCEPT !.result = "raise", !.bodyExc = e, !.exc = e]
                          /\ UNCHANGED <<conn, native>>
         /\ UNCHANGED creds

(* ---------------------------------------------------------------------- *)
(* OracleAdapterConnectionManager.cancel                                  *)
(* ---------------------------------------------------------------------- *)

\* what OracleConnection.close can do on a native handle
CloseOutcomes == {"ok", "cx_Oracle.DatabaseError", "cx_Oracle.InterfaceError"}

\* OracleConnection.close(oracle_connection): None is not a connection
\* (TypeError); on a native handle the driver closes it or raises
OracleConnectionClose(h, out, m) ==
    IF h = 0 THEN Raised("TypeError", <<"t">>, "close")
    ELSE IF out = "ok" THEN NoExc
    ELSE Raised(out, m, "close")

\* cancel marking the connection closed
CancelConn_marksClosed(c) == [c EXCEPT !.state = "closed"]

\* cancel assigns no field of the connection
CancelConn(c) == c

Cancel ==
    \E out \in CloseOutcomes, m \in DriverMsgs :
       LET c0 == CallOn("cancel", conn, native)
           h  == conn.handle
           e  == OracleConnectionClose(h, out, m)
       IN  /\ IF e = NoExc
              THEN /\ native' = [native EXCEPT ![h] = "closed"]
                   /\ call' = [c0 EXCEPT !.result = "return"]
              ELSE /\ call' = [c0 EXCEPT
                          !.result = "raise",
                          !.bodyExc = e,
                          !.exc = Raised("Exception", e.msg, "manager"),
                          !.logs = <<"Error closing connection for cancel request">>]
                   /\ UNCHANGED native
           /\ conn' = CancelConn(conn)
           /\ UNCHANGED <<creds, connectCalls>>

(* ---------------------------------------------------------------------- *)
(* get_status, get_response                                               *)
(* ---------------------------------------------------------------------- *)

\* DummyResponse("OK")
DummyResponseOK == <<"O", "K">>

GetStatus ==
    /\ call' = [CallOn("get_status", conn, native) EXCEPT
                   !.result = "return", !.value = DummyResponseOK]
    /\ UNCHANGED <<creds, conn, native, connectCalls>>

GetResponse ==
    /\ call' = [CallOn("get_response", conn, native) EXCEPT
                   !.result = "return", !.value = DummyResponseOK]
    /\ UNCHANGED <<creds, conn, native, connectCalls>>

(* ---------------------------------------------------------------------- *)
(* add_begin_query                                                        *)
(* ---------------------------------------------------------------------- *)

\* `connection.handle.cursor`: an attribute read, which fails on None
add_begin_query(c) ==
    IF c.handle = 0 THEN Raised("AttributeError", <<"a">>, "add_begin_query") ELSE NoExc

AddBeginQuery ==
    LET e == add_begin_query(conn) IN
    /\ call' = [CallOn("add_begin_query", conn, native) EXCEPT
                   !.result = IF e = NoExc THEN "return" ELSE "raise",
                   !.exc = e]
    /\ UNCHANGED <<creds, conn, native, connectCalls>>

(* ---------------------------------------------------------------------- *)
(* Host tool: release                                                     *)
(* ---------------------------------------------------------------------- *)

\* what self.release() can do: succeed, or raise a driver error or another error
ReleaseOutcomes == {"ok", "cx_Oracle.DatabaseError", "cx_Oracle.InterfaceError", "Exception"}

\* self.release(): the host tool closes the connection.  Nothing to do in state
\* closed or init; otherwise the transaction flag is cleared, the native handle
\* (if any) is closed and the state becomes closed.  Closing the native handle
\* is the step that can raise; the state is then left as it was.
Release(c, nat, out) ==
    IF c.state \in {"closed", "init"}
    THEN [conn |-> c, native |-> nat, raised |-> NoExc]
    ELSE IF c.handle = 0
    THEN [conn |-> [c EXCEPT !.transaction_open = FALSE, !.state = "closed"],
          native |-> nat, raised |-> NoExc]
    ELSE IF out = "ok"
    THEN [conn |-> [c EXCEPT !.transaction_open = FALSE, !.state = "closed"],
          native |-> [nat EXCEPT ![c.handle] = "closed"], raised |-> NoExc]
    ELSE [conn |-> [c EXCEPT !.transaction_open = FALSE],
          native |-> nat, raised |-> Raised(out, ReleaseMsg, "release")]

HostRelease ==
    \E out \in ReleaseOutcomes :
       LET r == Release(conn, native, out) IN
       /\ conn' = r.conn
       /\ native' = r.native
       /\ call' = [CallOn("release", conn, native) EXCEPT
                      !.result = IF r.raised = NoExc THEN "return" ELSE "raise",
                      !.exc = r.raised,
                      !.rel = <<IF r.raised = NoExc THEN "ok" ELSE r.raised.cls>>]
       /\ UNCHANGED <<creds, connectCalls>>

(* ---------------------------------------------------------------------- *)
(* exception_handler                                                      *)
(* ---------------------------------------------------------------------- *)

\* `except cx_Oracle.DatabaseError as e`: the first handler
HandlerIsDriverBranch(e) == IsOracleDatabaseError(e)

\* the release guarded by `except cx_Oracle.DatabaseError` only
ReleaseFailureIsLogged_onlyDatabaseError(x) == IsOracleDatabaseError(x)

\* `except cx_Oracle.Error` around self.release() in the first handler
ReleaseFailureIsLogged(x) == IsOracleError(x)

\* dbt.exceptions.DatabaseException(str(sql) + str(e).strip())
DatabaseExceptionMsg(sql, e) == sql \o Strip(e.msg)

\* every error wrapped, a runtime failure too
PassesThrough_never(e) == FALSE

\* `if isinstance(e, dbt.exceptions.RuntimeException): raise e`
PassesThrough(e) == IsRuntimeException(e)

\* the first handler raising the DatabaseException without a release attempt
HandleDatabaseError_noRelease(sql, e, c, nat, out) ==
    [conn |-> c, native |-> nat, rel |-> <<>>, logs |-> <<"Oracle error">>,
     exc |-> RaiseFrom("DatabaseException", DatabaseExceptionMsg(sql, e), e)]

\* `except cx_Oracle.DatabaseError as e`: log, try to release, and raise a
\* DatabaseException from e; a release error that is not caught propagates
HandleDatabaseError(sql, e, c, nat, out) ==
    LET r == Release(c, nat, out) IN
    IF r.raised = NoExc
    THEN [conn |-> r.conn, native |-> r.native, rel |-> <<"ok">>,
          logs |-> <<"Oracle error">>,
          exc |-> RaiseFrom("DatabaseException", DatabaseExceptionMsg(sql, e), e)]
    ELSE IF ReleaseFailureIsLogged(r.raised)
    THEN [conn |-> r.conn, native |-> r.native, rel |-> <<r.raised.cls>>,
          logs |-> <<"Oracle error", "Failed to release connection!">>,
          exc |-> RaiseFrom("DatabaseException", DatabaseExceptionMsg(sql, e), e)]
    ELSE [conn |-> r.conn, native |-> r.native, rel |-> <<r.raised.cls>>,
          logs |-> <<"Oracle error">>,
          exc |-> r.raised]

\* `except Exception as e`: log, release (an error of release propagates),
\* then re-raise e itself or a RuntimeException from e
HandleException(sql, e, c, nat, out) ==
    LET r == Release(c, nat, out) IN
    IF r.raised # NoExc
    THEN [conn |-> r.conn, native |-> r.native, rel |-> <<r.raised.cls>>,
          logs |-> <<"Rolling back transaction.">>,
          exc |-> r.raised]
    ELSE IF PassesThrough(e)
    THEN [conn |-> r.conn, native |-> r.native, rel |-> <<"ok">>,
          logs |-> <<"Rolling back transaction.">>,
          exc |-> e]
    ELSE [conn |-> r.conn, native |-> r.native, rel |-> <<"ok">>,
          logs |-> <<"Rolling back transaction.">>,
          exc |-> RaiseFrom("RuntimeException", e.msg, e)]

\* the except clauses of exception_handler for an error e raised in the body
ExceptionHandler(sql, e, c, nat, out) ==
    IF HandlerIsDriverBranch(e)
    THEN HandleDatabaseError(sql, e, c, nat, out)
    ELSE HandleException(sql, e, c, nat, out)

(* ---------------------------------------------------------------------- *)
(* add_query                                                              *)
(* ---------------------------------------------------------------------- *)

\* begin whenever auto_begin is set, whatever the transaction flag
AutoBegins_always(auto_begin, c) == auto_begin

\* `if auto_begin and connection.transaction_open is False: self.begin()`
AutoBegins(auto_begin, c) == auto_begin /\ c.transaction_open = FALSE

\* self.begin(): the host tool refuses to begin inside an open transaction,
\* calls add_begin_query and then sets transaction_open; an error of
\* add_begin_query leaves the flag alone
Begin(c) ==
    LET e == add_begin_query(c) IN
    IF c.transaction_open = TRUE
    THEN [conn |-> c, raised |-> Raised("InternalException", <<"i">>, "begin")]
    ELSE IF e # NoExc THEN [conn |-> c, raised |-> e]
    ELSE [conn |-> [c EXCEPT !.transaction_open = TRUE], raised |-> NoExc]

Step(name, stmt, binds) == [name |-> name, stmt |-> stmt, binds |-> binds]

\* the body with the precode executed after the statement
Body_precodeAfter(cr, sql, binds) ==
    (IF cr.debug_log_commands THEN <<Step("fire_event", <<>>, <<>>)>> ELSE <<>>)
    \o <<Step("cursor", <<>>, <<>>), Step("execute", sql, binds)>>
    \o (IF Truthy(cr.cursor_precode)
        THEN <<Step("execute", cr.cursor_precode.s, <<>>)>> ELSE <<>>)
    \o <<Step("commit", <<>>, <<>>)>>
    \o (IF cr.debug_log_commands THEN <<Step("fire_event", <<>>, <<>>)>> ELSE <<>>)

\* the calls the `with self.exception_handler(sql)` body makes out of the
\* manager, in program order: the two log events when debug_log_commands is
\* set (their text is not modelled), and the driver calls
Body(cr, sql, binds) ==
    (IF cr.debug_log_commands THEN <<Step("fire_event", <<>>, <<>>)>> ELSE <<>>)
    \o <<Step("cursor", <<>>, <<>>)>>
    \o (IF Truthy(cr.cursor_precode)
        THEN <<Step("execute", cr.cursor_precode.s, <<>>)>> ELSE <<>>)
    \o <<Step("execute", sql, binds), Step("commit", <<>>, <<>>)>>
    \o (IF cr.debug_log_commands THEN <<Step("fire_event", <<>>, <<>>)>> ELSE <<>>)

\* the calls made on the native handle
DriverSteps == {"cursor", "execute", "commit"}

\* where `connection.handle.cursor()` stands in the body
CursorIndex(cr) == IF cr.debug_log_commands THEN 2 ELSE 1

\* the classes of error a step of the body can raise
BodyErrors == {"cx_Oracle.DatabaseError", "cx_Oracle.InterfaceError",
               "RuntimeException", "Exception"}

\* the error the environment picked (step `at` raises cls) is one this
\* connection can produce: fire_event is no driver call, None has no cursor
\* attribute, and a closed native handle gives no cursor but a driver error
FaultPossible(body, at, cls, ci, c, nat) ==
    /\ (c.handle = 0 \/ NativeOf(c, nat) = "closed") => at <= ci
    /\ body[at].name = "fire_event" => cls \in {"RuntimeException", "Exception"}
    /\ (at = ci /\ c.handle = 0) => cls = "Exception"
    /\ (at = ci /\ c.handle # 0 /\ NativeOf(c, nat) = "closed")
          => cls \in {"cx_Oracle.DatabaseError", "cx_Oracle.InterfaceError"}

\* the error object raised by step `at` of the body
BodyError(body, at, cls, m, c) ==
    IF body[at].name = "cursor" /\ c.handle = 0
    THEN Raised("AttributeError", <<"a">>, "cursor")
    ELSE Raised(cls, m, body[at].name)

\* the driver calls among the first n steps, the raising one included, each
\* with the handle it was made on; None.cursor() is no driver call
DriverOps(body, n, h) ==
    LET made == SelectSeq(SubSeq(body, 1, n), LAMBDA s : s.name \in DriverSteps) IN
    IF h = 0 THEN <<>>
    ELSE [i \in 1..Len(made) |-> [name |-> made[i].name, stmt |-> made[i].stmt,
                                  binds |-> made[i].binds, h |-> h]]

\* the native handle once a cursor was obtained from it
HandleUsed(c, nat) == IF c.handle = 0 THEN nat ELSE [nat EXCEPT ![c.handle] = "used"]

\* add_query when self.begin() raises: outside the with block
AddQueryBeginFails(sql, binds) ==
    /\ AutoBegins(TRUE, conn)
    /\ Begin(conn).raised # NoExc
    /\ call' = [CallOn("add_query", conn, native) EXCEPT
                   !.sql = sql, !.bindings = binds, !.auto_begin = TRUE, !.began = TRUE,
                   !.result = "raise", !.exc = Begin(conn).raised]
    /\ UNCHANGED <<conn, native>>

\* add_query when no step of the body raises
AddQueryReturns(sql, binds, auto_begin) ==
    LET begins == AutoBegins(auto_begin, conn)
        c1 == IF begins THEN Begin(conn).conn ELSE conn
        body == Body(creds, sql, binds)
    IN  /\ begins => Begin(conn).raised = NoExc
        /\ conn.handle # 0
        /\ NativeOf(conn, native) # "closed"
        /\ conn' = c1
        /\ native' = HandleUsed(c1, native)
        /\ call' = [CallOn("add_query", conn, native) EXCEPT
                       !.sql = sql, !.bindings = binds,
                       !.auto_begin = auto_begin, !.began = begins,
                       !.ops = DriverOps(body, Len(body), c1.handle),
                       !.result = "return"]

\* add_query when step `at` of the body raises an error of class cls
AddQueryRaises(sql, binds, auto_begin, at, cls, m, out) ==
    LET begins == AutoBegins(auto_begin, conn)
        c1 == IF begins THEN Begin(conn).conn ELSE conn
        body == Body(creds, sql, binds)
    IN  /\ begins => Begin(conn).raised = NoExc
        /\ at \in 1..Len(body)
        /\ FaultPossible(body, at, cls, CursorIndex(creds), c1, native)
        /\ LET e == BodyError(body, at, cls, m, c1)
               r == ExceptionHandler(sql, e, c1,
                        IF at > CursorIndex(creds) THEN HandleUsed(c1, native)
                        ELSE native, out)
           IN  /\ conn' = r.conn
               /\ native' = r.native
               /\ call' = [CallOn("add_query", conn, native) EXCEPT
                              !.sql = sql, !.bindings = binds,
                       !.auto_begin = auto_begin, !.began = begins,
                              !.bodyExc = e,
                              !.ops = DriverOps(body, at, c1.handle),
                              !.result = "raise", !.exc = r.exc,
                              !.rel = r.rel, !.logs = r.logs]

\* the longest body has six steps
BodySteps == 1..6

AddQuery ==
    /\ \E sql \in SqlTexts, binds \in Bindings, auto_begin \in BOOLEAN :
          \/ auto_begin /\ AddQueryBeginFails(sql, binds)
          \/ AddQueryReturns(sql, binds, auto_begin)
          \/ \E at \in BodySteps, cls \in BodyErrors, m \in DriverMsgs,
                out \in ReleaseOutcomes :
                AddQueryRaises(sql, binds, auto_begin, at, cls, m, out)
    /\ UNCHANGED <<creds, connectCalls>>

(* ---------------------------------------------------------------------- *)
(* Specification                                                          *)
(* ---------------------------------------------------------------------- *)

\* no call is in progress and the last result has been taken
Idle == call.op = "none"

\* the caller takes the result of the last call and goes on
Continue ==
    /\ ~Idle
    /\ call' = NoCall
    /\ UNCHANGED <<creds, conn, native, connectCalls>>

Next ==
    \/ Idle /\ Open
    \/ Idle /\ Cancel
    \/ Idle /\ GetStatus
    \/ Idle /\ GetResponse
    \/ Idle /\ AddBeginQuery
    \/ Idle /\ AddQuery
    \/ Idle /\ HostRelease
    \/ Continue

Spec == Init /\ [][Next]_vars

(* ---------------------------------------------------------------------- *)
(* Properties                                                             *)
(* ---------------------------------------------------------------------- *)

\* sub occurs in s as a contiguous run
Contains(s, sub) ==
    \E i \in 1..(Len(s) + 1) :
       /\ i + Len(sub) - 1 <= Len(s)
       /\ SubSeq(s, i, i + Len(sub) - 1) = sub

IsPrefix(p, s) == Len(p) <= Len(s) /\ SubSeq(s, 1, Len(p)) = p

NonEmpty(x) == x.isNone = FALSE /\ x.s # <<>>

DriverErrorClasses == {"cx_Oracle.DatabaseError", "cx_Oracle.InterfaceError"}

CauseOf(e) == [cls |-> e.cls, msg |-> e.msg, origin |-> e.origin]

\* the descriptor the priority rule selects for configuration c
SelectedDescriptor(c) ==
    IF NonEmpty(c.connection_string)
    THEN [method |-> "CONNECTION_STRING", dsn |-> c.connection_string.s]
    ELSE IF NonEmpty(c.host)
    THEN [method |-> "HOST",
          dsn |-> c.host.s \o <<":">> \o FormatPort(c.port) \o <<"/">>
                  \o (IF NonEmpty(c.service) THEN c.service.s ELSE c.database)]
    ELSE [method |-> "TNS", dsn |-> c.database]

\* C1: for every credentials value the resolver returns (never raises) the
\* method and address chosen by the priority connection string > host > TNS:
\* the connection string verbatim, else "{host}:{port}/{service or database}",
\* else the database name; the result is the same whatever the password is.
C1_DescriptorByPriority ==
    call.op = "resolve" =>
       /\ call.result = "return"
       /\ call.method = SelectedDescriptor(creds).method
       /\ call.dsn = SelectedDescriptor(creds).dsn
       /\ \A pw \in Passwords :
             /\ connection_method([creds EXCEPT !.password = pw]) = call.method
             /\ get_dsn([creds EXCEPT !.password = pw]) = call.dsn

\* a connection string wins over a host that is also configured
C1_Witness ==
    /\ call.op = "resolve"
    /\ NonEmpty(creds.connection_string)
    /\ NonEmpty(creds.host)
    /\ call.method = "CONNECTION_STRING"
    /\ call.dsn = creds.connection_string.s

\* C2: an open call on a connection whose state is open makes no driver
\* connect call, creates no handle, leaves handle and state as they were and
\* returns the connection.
C2_OpenIdempotent ==
    [][(call'.op = "open" /\ call.op = "none" /\ conn.state = "open")
          => /\ connectCalls' = connectCalls
             /\ native' = native
             /\ conn' = conn
             /\ call'.result = "return"
             /\ call'.connects = 0]_vars

\* open was called on an open connection
C2_Witness ==
    /\ call.op = "open"
    /\ call.pre.state = "open"
    /\ call.result = "return"
    /\ conn.state = "open"
    /\ connectCalls = 1

\* C3 as stated: open on a connection that is not open ends, when the driver
\* raises an error of either of its categories, with handle null, state fail
\* and a ConnectionFailure carrying the driver's message; and with the new
\* handle stored and state open when the driver returns a handle.
C3_AnyDriverErrorFails ==
    (call.op = "open" /\ call.pre.state # "open") =>
       IF call.bodyExc = NoExc
       THEN conn.state = "open" /\ conn.handle # 0 /\ call.result = "return"
       ELSE /\ conn.handle = 0
            /\ conn.state = "fail"
            /\ call.result = "raise"
            /\ call.exc.cls = "FailedToConnectException"
            /\ call.exc.msg = call.bodyExc.msg

\* C3 amended: the failure path is taken for the driver's database-error type;
\* another driver error reaches the caller as it is and the connection keeps
\* its handle and state.
C3_DatabaseErrorFails ==
    (call.op = "open" /\ call.pre.state # "open") =>
       IF call.bodyExc = NoExc
       THEN /\ conn.state = "open"
            /\ conn.handle = Len(native)
            /\ conn.handle # call.pre.handle
            /\ native[conn.handle] = "fresh"
            /\ call.result = "return"
       ELSE IF call.bodyExc.cls = "cx_Oracle.DatabaseError"
       THEN /\ conn.handle = 0
            /\ conn.state = "fail"
            /\ call.result = "raise"
            /\ call.exc.cls = "FailedToConnectException"
            /\ call.exc.msg = call.bodyExc.msg
       ELSE /\ conn = call.pre
            /\ call.result = "raise"
            /\ call.exc = call.bodyExc

\* a failed open drops the handle the connection held
C3_Witness ==
    /\ call.op = "open"
    /\ call.bodyExc.cls = "cx_Oracle.DatabaseError"
    /\ call.pre.handle # 0
    /\ conn.handle = 0
    /\ conn.state = "fail"

\* C4 as stated: a driver database error raised in the body of add_query makes
\* the manager attempt a release, and the caller always receives a QueryFailure
\* whose message contains the SQL text and the driver's message (its text,
\* surrounding whitespace aside), whatever the release attempt did.
C4_AlwaysQueryFailure ==
    (call.op = "add_query" /\ call.bodyExc.cls = "cx_Oracle.DatabaseError") =>
       /\ Len(call.rel) = 1
       /\ call.result = "raise"
       /\ call.exc.cls = "DatabaseException"
       /\ Contains(call.exc.msg, call.sql)
       /\ Contains(call.exc.msg, Strip(call.bodyExc.msg))

\* C4 amended: the release is attempted once; when it succeeds or raises a
\* driver error (which is logged), the caller receives a QueryFailure made of
\* the SQL text followed by the driver's message without its surrounding
\* whitespace, with the driver error as its cause; when the release raises
\* any other error, that error reaches the caller instead.
C4_QueryFailureUnlessReleaseRaisesOther ==
    (call.op = "add_query" /\ call.bodyExc.cls = "cx_Oracle.DatabaseError") =>
       /\ Len(call.rel) = 1
       /\ call.result = "raise"
       /\ IF call.rel[1] \in {"ok"} \cup DriverErrorClasses
          THEN /\ call.exc.cls = "DatabaseException"
               /\ call.exc.origin = "manager"
               /\ call.exc.cause = CauseOf(call.bodyExc)
               /\ call.exc.msg = call.sql \o Strip(call.bodyExc.msg)
               /\ IsPrefix(call.sql, call.exc.msg)
               /\ Contains(call.exc.msg, Strip(call.bodyExc.msg))
               /\ (call.rel[1] # "ok") <=>
                     (\E i \in 1..Len(call.logs) :
                         call.logs[i] = "Failed to release connection!")
          ELSE /\ call.exc.cls = call.rel[1]
               /\ call.exc.origin = "release"

\* the release failed with a driver error and the caller still got the
\* QueryFailure
C4_Witness ==
    /\ call.op = "add_query"
    /\ call.bodyExc.cls = "cx_Oracle.DatabaseError"
    /\ call.rel = <<"cx_Oracle.InterfaceError">>
    /\ call.exc.cls = "DatabaseException"
    /\ call.bodyExc.msg # Strip(call.bodyExc.msg)

\* C5 as stated: an error that is not a driver error, raised in the body of
\* add_query, makes the manager release the connection, and the caller then
\* receives the very same error if it is a host-tool runtime failure, and
\* otherwise a RuntimeFailure whose cause is the error.
C5_AlwaysSameOrWrapped ==
    (call.op = "add_query" /\ call.bodyExc # NoExc
        /\ call.bodyExc.cls \notin DriverErrorClasses) =>
       /\ call.rel = <<"ok">>
       /\ IF call.bodyExc.cls = "RuntimeException"
          THEN call.exc = call.bodyExc
          ELSE /\ call.exc.cls = "RuntimeException"
               /\ call.exc.origin = "manager"
               /\ call.exc.cause = CauseOf(call.bodyExc)

\* C5 amended: an error other than a driver database error, raised in the
\* body, makes the manager call release once; if release raises, that error
\* reaches the caller; otherwise the caller receives the very same error if
\* it is a host-tool runtime failure, and else a new RuntimeFailure whose
\* cause is the error.
C5_SameOrWrappedUnlessReleaseRaises ==
    (call.op = "add_query" /\ call.bodyExc # NoExc
        /\ call.bodyExc.cls # "cx_Oracle.DatabaseError") =>
       /\ Len(call.rel) = 1
       /\ call.result = "raise"
       /\ IF call.rel[1] # "ok"
          THEN /\ call.exc.cls = call.rel[1]
               /\ call.exc.origin = "release"
          ELSE /\ conn.state \in {"closed", "init"}
               /\ IF call.bodyExc.cls = "RuntimeException"
                  THEN call.exc = call.bodyExc
                  ELSE /\ call.exc.cls = "RuntimeException"
                       /\ call.exc.origin = "manager"
                       /\ call.exc.cause = CauseOf(call.bodyExc)
                       /\ call.exc # call.bodyExc

\* a host-tool runtime failure raised while executing came back as it was,
\* after the open connection was released
C5_Witness ==
    /\ call.op = "add_query"
    /\ call.bodyExc.cls = "RuntimeException"
    /\ call.bodyExc.origin = "execute"
    /\ call.exc = call.bodyExc
    /\ call.pre.state = "open"
    /\ conn.state = "closed"

\* the connection has been released: its state is closed and so is its handle
Released ==
    /\ conn.state = "closed"
    /\ conn.handle # 0 => native[conn.handle] = "closed"

\* C6 as stated: whenever add_query raises a QueryFailure the connection has
\* been released.
C6_ReleasedBeforeQueryFailure ==
    (call.op = "add_query" /\ call.exc.cls = "DatabaseException") => Released

\* C6 amended: whenever add_query raises a QueryFailure a release of the
\* connection has been attempted; the connection is released unless that
\* attempt raised a driver error, which was logged.
C6_ReleaseAttemptedBeforeQueryFailure ==
    (call.op = "add_query" /\ call.exc.cls = "DatabaseException") =>
       /\ Len(call.rel) = 1
       /\ call.rel[1] = "ok" => Released
       /\ (call.rel[1] = "ok" /\ call.pre.state = "open") => conn.transaction_open = FALSE
       /\ call.rel[1] # "ok" =>
             /\ call.rel[1] \in DriverErrorClasses
             /\ call.logs[Len(call.logs)] = "Failed to release connection!"
             /\ conn.state = call.pre.state

\* a QueryFailure after a release that closed an open connection
C6_Witness ==
    /\ call.op = "add_query"
    /\ call.exc.cls = "DatabaseException"
    /\ call.rel = <<"ok">>
    /\ call.pre.state = "open"
    /\ call.preNative # "closed"
    /\ call.began
    /\ Released
    /\ conn.transaction_open = FALSE

\* the driver calls a complete add_query makes on handle h, in order
FullCallOrder(cr, sql, binds, h) ==
    <<[name |-> "cursor", stmt |-> <<>>, binds |-> <<>>, h |-> h]>>
    \o (IF NonEmpty(cr.cursor_precode)
        THEN <<[name |-> "execute", stmt |-> cr.cursor_precode.s, binds |-> <<>>, h |-> h]>>
        ELSE <<>>)
    \o <<[name |-> "execute", stmt |-> sql, binds |-> binds, h |-> h],
         [name |-> "commit", stmt |-> <<>>, binds |-> <<>>, h |-> h]>>

Commits(ops) == {i \in 1..Len(ops) : ops[i].name = "commit"}

\* C7: the driver calls of every add_query call are, in this order and on
\* the connection's handle: cursor, the cursor precode if one is configured,
\* the statement with its bindings, commit.  A call that returns made all of
\* them, so it ran the precode (on every call) and committed exactly once,
\* right after the statement; a call that raised made a prefix of them, and
\* when obtaining the cursor, the precode or the statement raised, no commit.
C7_CallOrder ==
    call.op = "add_query" =>
       LET full == FullCallOrder(creds, call.sql, call.bindings, call.pre.handle) IN
       /\ IsPrefix(call.ops, full)
       /\ call.result = "return" =>
             /\ call.ops = full
             /\ Commits(call.ops) = {Len(call.ops)}
             /\ call.ops[Len(call.ops) - 1].stmt = call.sql
       /\ call.result = "raise" =>
             /\ Commits(call.ops) \subseteq {Len(full)}
             /\ call.bodyExc.origin \in {"cursor", "execute"} =>
                   (Commits(call.ops) = {} /\ call.ops # full)
             /\ call.bodyExc = NoExc => call.ops = <<>>

\* a second add_query on a handle already used ran the precode again
C7_Witness ==
    /\ call.op = "add_query"
    /\ call.result = "return"
    /\ call.preNative = "used"
    /\ Len(call.ops) = 4
    /\ call.ops[2].stmt = creds.cursor_precode.s
    /\ call.ops[3].stmt = call.sql
    /\ call.ops[3].binds # <<>>

\* C8: add_query calls begin, before any driver call, exactly when auto_begin
\* is true and the connection's transaction_open flag is false; so begin is
\* never called while a transaction is open, and a call that did not begin
\* and returned leaves the flag as it was.
C8_BeginIffAutoAndNotOpen ==
    call.op = "add_query" =>
       /\ call.began <=> (call.auto_begin /\ call.pre.transaction_open = FALSE)
       /\ call.began => ~call.pre.transaction_open
       /\ (call.began /\ call.bodyExc = NoExc /\ call.result = "raise") =>
             (call.ops = <<>> /\ conn = call.pre)
       /\ (call.began /\ call.result = "return") => conn.transaction_open
       /\ (~call.began /\ call.result = "return") =>
             conn.transaction_open = call.pre.transaction_open

\* auto_begin with a transaction already open: no begin
C8_Witness ==
    /\ call.op = "add_query"
    /\ call.auto_begin
    /\ call.pre.transaction_open
    /\ ~call.began
    /\ call.result = "return"

\* C9: the state becomes fail only by an open call whose handle creation
\* raised; no other operation sets it, and whenever the state is fail the
\* handle is null.
C9_FailOnlyFromOpen ==
    [][/\ (conn'.state = "fail" /\ conn.state # "fail") =>
             /\ call'.op = "open"
             /\ call'.result = "raise"
             /\ call'.bodyExc.origin = "connect"
       /\ conn'.state = "fail" => conn'.handle = 0]_vars

\* a cancel on a failed connection left it failed
C9_Witness ==
    /\ call.op = "cancel"
    /\ conn.state = "fail"
    /\ conn.handle = 0

\* C10: cancel changes no field of the connection: after it the state is what
\* it was and the handle is the same, now closed.  On an open connection
\* whose handle was closed, open returns without a connect call and add_query
\* makes its driver calls, the first of them cursor, on that closed handle.
C10_CancelKeepsConnection ==
    /\ call.op = "cancel" =>
          /\ conn = call.pre
          /\ call.result = "return" =>
                (conn.handle # 0 /\ native[conn.handle] = "closed")
    /\ (call.op = "open" /\ call.pre.state = "open" /\ call.preNative = "closed") =>
          /\ call.result = "return"
          /\ call.connects = 0
          /\ conn = call.pre
          /\ native[conn.handle] = "closed"
    /\ (call.op = "add_query" /\ call.pre.state = "open" /\ call.preNative = "closed") =>
          /\ call.bodyExc.origin # "fire_event" =>
                (Len(call.ops) >= 1 /\ call.ops[1].name = "cursor")
          /\ \A i \in 1..Len(call.ops) : call.ops[i].h = call.pre.handle

\* add_query ran on an open connection whose handle a cancel had closed
C10_Witness ==
    /\ call.op = "add_query"
    /\ call.pre.state = "open"
    /\ call.preNative = "closed"
    /\ call.ops[1].name = "cursor"
    /\ call.ops[1].h = call.pre.handle

====
